---- MODULE Spec2Model ----
(***************************************************************************)
(* Decorations service of theia:                                           *)
(*   packages/core/src/browser/decorations/decorations-service.ts          *)
(*   packages/plugin-ext/src/main/browser/decorations/decorations-main.ts  *)
(*                                                                         *)
(* The state is the aggregator's list of provider wrappers (_data), each   *)
(* wrapper's cache (data), the provideDecorations calls whose promise has  *)
(* not settled, with their cancellation tokens, and what the last handler  *)
(* put on the two emitters, which providers it called and what it          *)
(* returned.  The request queue of a remote provider adds its id pool, its  *)
(* two maps, its timer, the promises enqueue handed out and the batched    *)
(* $provideDecorations calls in flight.                                    *)
(*                                                                         *)
(* Spec is the service with in-process providers, QSpec the request queue  *)
(* on its own, RemoteSpec the service with one provider registered through *)
(* $registerDecorationProvider, whose calls go through the queue.          *)
(***************************************************************************)
EXTENDS Integers, Sequences, FiniteSets, TLC

\* ------------------------------------------------------------------ bounds
MaxWrappers == 2
MaxCalls == 2
MaxUris == 1
MaxRequests == 3

\* --------------------------------------------------------------- resources
\* Resource paths as sequences of segments: /a, /a/b, /c.
ResSeq == << <<"a">>, <<"a", "b">>, <<"c">> >>
Res == { ResSeq[i] : i \in 1..Len(ResSeq) }

\* The hierarchical relation of the cache keys: d lies strictly below r.
IsStrictDescendant(d, r) ==
    /\ Len(d) > Len(r)
    /\ SubSeq(d, 1, Len(r)) = r

\* ------------------------------------------------------------------ values
\* What a cache key holds.  Absent: no entry.  Undef: an entry whose value is
\* the JavaScript value undefined (what _keepItem stores for "no decoration").
Absent == [t |-> "absent"]
Undef == [t |-> "undef"]
Req(c) == [t |-> "req", id |-> c]
Deco(b) == [t |-> "deco", bubble |-> b]
\* JavaScript undefined, as seen by the caller of get().
Undefined == [t |-> "undefined"]
NoVal == [t |-> "none"]

Truthy(v) == v.t \in {"req", "deco"}
IsRequest(v) == v.t = "req"

\* ------------------------------------------------- TernarySearchTree<URI,_>
EmptyTree == [u \in Res |-> Absent]
tstGet(tree, u) == IF tree[u].t \in {"absent", "undef"} THEN Undefined ELSE tree[u]
tstSet(tree, u, v) == [tree EXCEPT ![u] = IF v = Undefined THEN Undef ELSE v]
tstDelete(tree, u) == [tree EXCEPT ![u] = Absent]
tstClear(tree) == EmptyTree
\* The entries strictly below u, in key order; an empty enumeration is falsy.
findSuperstr(tree, u) ==
    SelectSeq(ResSeq, LAMBDA d : IsStrictDescendant(d, u) /\ tree[d] # Absent)

VARIABLES
    _data,          \* DecorationsServiceImpl._data: wrapper ids, registration order
    data,           \* wrapper id -> DecorationProviderWrapper.data
    subscribed,     \* wrapper id -> its provider.onDidChange subscription is live
    handleInvoked,  \* wrapper id -> its disposal handle has been invoked
    nWrappers,      \* wrappers constructed so far
    calls,          \* call id -> the provideDecorations call: token, promise
    last,           \* the handler that ran last, with its arguments
    pubOut,         \* events it fired on onDidChangeDecorationsEmitter
    uriOut,         \* <<wrapper, uri>> it fired on _onDidChangeDecorationsDelayed
    callsOut,       \* the provideDecorations calls it made: [w, uri, resp]
    ret             \* what getDecoration returned: [w, uri, deco]

vars == <<_data, data, subscribed, handleInvoked, nWrappers, calls, last,
          pubOut, uriOut, callsOut, ret>>

\* DecorationRequestsQueue
VARIABLES
    _idPool,        \* DecorationRequestsQueue._idPool
    _requests,      \* ._requests: the Map as <<id, {id, uri}>> in insertion order
    _resolver,      \* ._resolver: the Map as <<id, promise it resolves>>
    _timer,         \* ._timer: Undefined or the handle setTimeout returned
    timeouts,       \* callbacks handed to setTimeout that have not run yet
    promises,       \* the promises enqueue returned, in creation order
    batches,        \* batch number -> the $provideDecorations call of a flush
    qlast           \* the queue handler that ran last

qvars == <<_idPool, _requests, _resolver, _timer, timeouts, promises, batches,
           qlast>>
allvars == <<vars, qvars>>

Wrappers == 1..MaxWrappers

\* The provider's answer to one provideDecorations call.
Resp == {"syncBubble", "syncPlain", "syncNone", "async"}

\* The mutable state a handler threads through the calls it makes.
Heap == [data |-> data, calls |-> calls, uriOut |-> <<>>, callsOut |-> <<>>]

\* An event on onDidChangeDecorations, as a listener sees it during delivery:
\* all: the predicate is constantly true; affects: where it answers true.
AffectsAll == [all |-> TRUE, affects |-> Res]
AffectsOnly(S) == [all |-> FALSE, affects |-> S]
affectsResource(e, u) == e.all \/ u \in e.affects

\* Nothing subscribes to _onDidChangeDecorationsDelayed (the wrappers'
\* _uriEmitter) anywhere in the class, so what is fired on it (uriOut) stays
\* there: no handler turns it into an event of onDidChangeDecorations.

\* ------------------------------------------------ DecorationProviderWrapper
knowsAbout(tree, u) ==
    Truthy(tstGet(tree, u)) \/ Len(findSuperstr(tree, u)) > 0

\* _keepItem's condition "only fire event when something changed".
ShouldFire(deco, old) == Truthy(deco) \/ Truthy(old)

_keepItem(H, w, u, val) ==
    LET deco == IF Truthy(val) THEN val ELSE Undefined
        old == tstGet(H.data[w], u)
        fire == ShouldFire(deco, old)
    IN  [H |-> [H EXCEPT !.data[w] = tstSet(@, u, deco),
                         !.uriOut = IF fire THEN Append(@, <<w, u>>) ELSE @],
         item |-> deco]

\* What provideDecorations hands back at once.
SyncVal(resp) ==
    CASE resp = "syncBubble" -> Deco(TRUE)
      [] resp = "syncPlain" -> Deco(FALSE)
      [] resp = "syncNone" -> Undefined
      [] OTHER -> NoVal

\* A call record.  st: free (id not used yet), pending (promise not settled),
\* done (promise settled, or the provider answered synchronously).
\* cancelled: source.cancel() was called.  gen (history): latest while no later
\* fetch for the same wrapper and resource started and the cache was not cleared.
\* sup (history): starting this call cancelled a pending request.
\* prev (history): the resource had resolved to a decoration before the fetch.
FreeCall == [w |-> 0, uri |-> << >>, st |-> "free", cancelled |-> FALSE,
             gen |-> "none", sup |-> FALSE, prev |-> FALSE]
DoneCall == [FreeCall EXCEPT !.st = "done"]
CallIds == 1..MaxCalls
NextId(cs) == CHOOSE c \in CallIds :
                  /\ cs[c].st = "free"
                  /\ \A d \in CallIds : d < c => cs[d].st # "free"
Made(cs) == Cardinality({c \in CallIds : cs[c].st # "free"})

\* A later fetch for (w, u) starts: the earlier calls for it are no longer latest.
Superseded(cs, w, u) ==
    [c \in CallIds |->
        IF cs[c].st = "pending" /\ cs[c].w = w /\ cs[c].uri = u
           /\ cs[c].gen = "latest"
        THEN [cs[c] EXCEPT !.gen = "superseded"] ELSE cs[c]]

\* A _fetchData that leaves a pending request alone.
KeepPending(H, w, u) == H
\* "check for pending request and cancel it"
CancelPending(H, w, u) ==
    LET pendingRequest == tstGet(H.data[w], u)
    IN  IF IsRequest(pendingRequest)
        THEN [H EXCEPT !.calls[pendingRequest.id].cancelled =
                           (H.calls[pendingRequest.id].st = "pending"),
                       !.data[w] = tstDelete(@, u)]
        ELSE H

\* The slot of (w, u) is a request whose promise has not settled.
HasPending(H, w, u) ==
    /\ IsRequest(tstGet(H.data[w], u))
    /\ H.calls[tstGet(H.data[w], u).id].st = "pending"

\* What (w, u) had resolved to before a fetch that starts now was a
\* decoration: the slot holds one, or holds a request that replaced one.
PrevDeco(H, w, u) ==
    LET slot == tstGet(H.data[w], u)
    IN  IF IsRequest(slot)
        THEN H.calls[slot.id].st = "pending" /\ H.calls[slot.id].prev
        ELSE slot.t = "deco"

\* _fetchData returning nothing on the synchronous path too.
SyncReturnNothing(kept) == [kept EXCEPT !.item = Undefined]
\* "sync -> we have a result now": what _keepItem returns is returned.
SyncReturn(kept) == kept

_fetchData(H, w, u, resp) ==
    LET H1 == CancelPending(H, w, u)
        c == NextId(H1.calls)
        cs == Superseded(H1.calls, w, u)
        H2 == [H1 EXCEPT !.callsOut = Append(@, [w |-> w, uri |-> u,
                                                  resp |-> resp]),
                         !.calls = [cs EXCEPT ![c] =
                             IF resp = "async"
                             THEN [w |-> w, uri |-> u, st |-> "pending",
                                   cancelled |-> FALSE, gen |-> "latest",
                                   sup |-> HasPending(H, w, u),
                                   prev |-> PrevDeco(H, w, u)]
                             ELSE DoneCall]]
    IN  IF resp # "async"
        THEN SyncReturn(_keepItem(H2, w, u, SyncVal(resp)))
        ELSE [H |-> [H2 EXCEPT !.data[w] = tstSet(@, u, Req(c))],
              item |-> Undefined]

\* getOrRetrieve's test "unknown -> trigger request".
IsUnknown(item) == item = Undefined

\* The callbacks getOrRetrieve makes, in order, and the heap it leaves.
getOrRetrieve(H, w, u, includeChildren, resp) ==
    LET item0 == tstGet(H.data[w], u)
        f == IF IsUnknown(item0) THEN _fetchData(H, w, u, resp)
             ELSE [H |-> H, item |-> item0]
        own == IF Truthy(f.item) /\ ~IsRequest(f.item)
               THEN << [w |-> w, uri |-> u, deco |-> f.item, isChild |-> FALSE] >>
               ELSE << >>
        tree == f.H.data[w]
        iter == findSuperstr(tree, u)
        found == SelectSeq(iter, LAMBDA d :
                     Truthy(tstGet(tree, d)) /\ ~IsRequest(tstGet(tree, d)))
        kids == IF includeChildren
                THEN [j \in 1..Len(found) |->
                         [w |-> w, uri |-> found[j], deco |-> tree[found[j]],
                          isChild |-> TRUE]]
                ELSE << >>
    IN  [H |-> f.H, cb |-> own \o kids]

\* The selective branch of the onDidChange listener: _fetchData per uri.
RECURSIVE fetchEach(_, _, _, _, _)
fetchEach(H, w, uris, resps, i) ==
    IF i > Len(uris) THEN H
    ELSE fetchEach(_fetchData(H, w, uris[i], resps[i]).H, w, uris, resps, i + 1)

\* A completion handler without the identity test.
IsCurrentAny(tree, u, c) == TRUE
\* The completion handlers' test this.data.get(uri) === request.
IsCurrent(tree, u, c) == tstGet(tree, u) = Req(c)

\* --------------------------------------------------- DecorationsServiceImpl
\* A callback that keeps every decoration it is handed.
IncludeAny(deco, isChild) == TRUE
\* getDecoration's callback: "if (!isChild || deco.bubble)".
Include(deco, isChild) == ~isChild \/ deco.bubble

RECURSIVE getDecorationLoop(_, _, _, _, _, _)
getDecorationLoop(H, i, u, includeChildren, resps, acc) ==
    IF i > Len(_data) THEN [H |-> H, data |-> acc]
    ELSE LET r == getOrRetrieve(H, _data[i], u, includeChildren, resps[i])
             kept == SelectSeq(r.cb, LAMBDA x : Include(x.deco, x.isChild))
         IN  getDecorationLoop(r.H, i + 1, u, includeChildren, resps,
                 acc \o [j \in 1..Len(kept) |->
                            [w |-> kept[j].w, uri |-> kept[j].uri,
                             deco |-> kept[j].deco]])

\* Array.prototype.indexOf, 0-based, -1 when absent.
indexOf(seq, x) ==
    IF \E i \in 1..Len(seq) : seq[i] = x
    THEN (CHOOSE i \in 1..Len(seq) : seq[i] = x) - 1
    ELSE -1

\* Array.prototype.splice(start, 1): a negative start counts from the end.
spliceStart(seq, start) ==
    IF start < 0
    THEN (IF Len(seq) + start < 0 THEN 0 ELSE Len(seq) + start)
    ELSE (IF start > Len(seq) THEN Len(seq) ELSE start)
spliceOne(seq, start) ==
    LET s == spliceStart(seq, start)
    IN  SubSeq(seq, 1, s) \o SubSeq(seq, s + 2, Len(seq))
spliced(seq, start) ==
    LET s == spliceStart(seq, start)
    IN  IF s < Len(seq) THEN seq[s + 1] ELSE 0

\* The handler that ran last.  c, gen, cancelled: the settled call, as it was
\* when its promise settled, and val, what it settled with (a result or an
\* error).  second: the handle
\* had been invoked before.  removed: the wrapper splice() took out of _data
\* (0: none).  resolved: the resources whose slot a flush found resolved.
\* afterFlush: this getDecoration directly follows a flush of a listed wrapper
\* and asks for a resource that flush found resolved.
NoOp == [op |-> "init", w |-> 0, uri |-> << >>, ic |-> FALSE, c |-> 0,
         gen |-> "none", cancelled |-> FALSE, sup |-> FALSE, val |-> NoVal,
         second |-> FALSE, removed |-> 0, resolved |-> {},
         afterFlush |-> FALSE]

\* The service after construction.
ServiceInit ==
    /\ _data = << >>
    /\ data = [w \in Wrappers |-> EmptyTree]
    /\ subscribed = [w \in Wrappers |-> FALSE]
    /\ handleInvoked = [w \in Wrappers |-> FALSE]
    /\ nWrappers = 0
    /\ calls = [c \in CallIds |-> FreeCall]
    /\ last = NoOp
    /\ pubOut = << >>
    /\ uriOut = << >>
    /\ callsOut = << >>
    /\ ret = << >>

\* A clear() of wrapper w's cache: no call of w made so far is its latest.
Dropped(cs, w) ==
    [c \in CallIds |->
        IF cs[c].st = "pending" /\ cs[c].w = w
        THEN [cs[c] EXCEPT !.gen = "dropped"] ELSE cs[c]]

\* How many provider calls getDecoration(u) is about to make.
Fetches(u) ==
    Cardinality({i \in 1..Len(_data) : IsUnknown(tstGet(data[_data[i]], u))})

\* ----------------------------------------------------------------- actions
\* unshift in place of push.
Unshifted(seq, wrapper) == << wrapper >> \o seq
\* this._data.push(wrapper)
Pushed(seq, wrapper) == Append(seq, wrapper)

registerDecorationsProvider ==
    /\ nWrappers < MaxWrappers
    /\ LET wrapper == nWrappers + 1
       IN  /\ nWrappers' = wrapper
           /\ data' = [data EXCEPT ![wrapper] = EmptyTree]
           /\ subscribed' = [subscribed EXCEPT ![wrapper] = TRUE]
           /\ _data' = Pushed(_data, wrapper)
           /\ pubOut' = << AffectsAll >>
           /\ last' = [NoOp EXCEPT !.op = "register", !.w = wrapper]
    /\ uriOut' = << >>
    /\ callsOut' = << >>
    /\ ret' = << >>
    /\ UNCHANGED <<handleInvoked, calls>>

\* A wrapper.dispose() that keeps the cache.
disposeKeep(tree) == tree
\* DecorationProviderWrapper.dispose: this.data.clear()
dispose(tree) == tstClear(tree)

\* The function handed to Disposable.create, run at each dispose() of the handle.
disposeHandle(wrapper) ==
    /\ wrapper \in 1..nWrappers
    /\ _data' = spliceOne(_data, indexOf(_data, wrapper))
    /\ pubOut' = << AffectsOnly({u \in Res : knowsAbout(data[wrapper], u)}) >>
    \* wrapper.dispose()
    /\ subscribed' = [subscribed EXCEPT ![wrapper] = FALSE]
    /\ data' = [data EXCEPT ![wrapper] = dispose(@)]
    /\ calls' = Dropped(calls, wrapper)
    /\ handleInvoked' = [handleInvoked EXCEPT ![wrapper] = TRUE]
    /\ last' = [NoOp EXCEPT !.op = "dispose", !.w = wrapper,
                            !.second = handleInvoked[wrapper],
                            !.removed = spliced(_data, indexOf(_data, wrapper))]
    /\ uriOut' = << >>
    /\ callsOut' = << >>
    /\ ret' = << >>
    /\ UNCHANGED nWrappers

getDecoration(u, includeChildren, resps) ==
    /\ Made(calls) + Fetches(u) <= MaxCalls
    /\ LET r == getDecorationLoop(Heap, 1, u, includeChildren, resps, << >>)
       IN  /\ data' = r.H.data
           /\ calls' = r.H.calls
           /\ uriOut' = r.H.uriOut
           /\ callsOut' = r.H.callsOut
           /\ ret' = r.data
    /\ pubOut' = << >>
    /\ last' = [NoOp EXCEPT !.op = "get", !.uri = u, !.ic = includeChildren,
                            !.w = IF last.op = "flush" THEN last.w ELSE 0,
                            !.afterFlush = /\ last.op = "flush"
                                           /\ u \in last.resolved
                                           /\ indexOf(_data, last.w) >= 0]
    /\ UNCHANGED <<_data, subscribed, handleInvoked, nWrappers>>

\* A flush that leaves the cache as it is.
FlushDataKeep(tree) == tree
\* "flush event -> drop all data": this.data.clear().
FlushData(tree) == tstClear(tree)

\* provider.onDidChange fires with no resource list.
onDidChangeFlush(w) ==
    /\ subscribed[w]
    /\ data' = [data EXCEPT ![w] = FlushData(@)]
    /\ calls' = Dropped(calls, w)
    /\ pubOut' = << AffectsAll >>
    /\ uriOut' = << >>
    /\ callsOut' = << >>
    /\ ret' = << >>
    /\ last' = [NoOp EXCEPT !.op = "flush", !.w = w,
                            !.resolved = {u \in Res :
                                data[w][u].t \in {"undef", "deco"}}]
    /\ UNCHANGED <<_data, subscribed, handleInvoked, nWrappers>>

\* provider.onDidChange fires with a list of resources.
onDidChangeUris(w, uris, resps) ==
    /\ subscribed[w]
    /\ Made(calls) + Len(uris) <= MaxCalls
    /\ LET H == fetchEach(Heap, w, uris, resps, 1)
       IN  /\ data' = H.data
           /\ calls' = H.calls
           /\ uriOut' = H.uriOut
           /\ callsOut' = H.callsOut
    /\ pubOut' = << >>
    /\ ret' = << >>
    /\ last' = [NoOp EXCEPT !.op = "change", !.w = w, !.uri = uris[1]]
    /\ UNCHANGED <<_data, subscribed, handleInvoked, nWrappers>>

\* The promise of call c fulfils with val: the .then(data => ...) handler.
fetchResolved(c, val) ==
    /\ calls[c].st = "pending"
    /\ LET w == calls[c].w
           u == calls[c].uri
           H1 == [Heap EXCEPT !.calls[c] = DoneCall]
           H2 == IF IsCurrent(data[w], u, c)
                 THEN _keepItem(H1, w, u, val).H ELSE H1
       IN  /\ data' = H2.data
           /\ calls' = H2.calls
           /\ uriOut' = H2.uriOut
           /\ last' = [NoOp EXCEPT !.op = "resolved", !.w = w, !.uri = u,
                                   !.c = c, !.gen = calls[c].gen,
                                   !.cancelled = calls[c].cancelled,
                                   !.sup = calls[c].sup, !.val = val]
    /\ pubOut' = << >>
    /\ callsOut' = << >>
    /\ ret' = << >>
    /\ UNCHANGED <<_data, subscribed, handleInvoked, nWrappers>>

\* What a promise rejects with: the cancellation error, or any other.
Canceled == [t |-> "canceled"]
Failure == [t |-> "error"]
Errors == {Canceled, Failure}
\* err instanceof Error && err.name === 'Canceled' && err.message === 'Canceled'
IsCanceled(err) == err = Canceled

\* The rejection handler's test this.data.get(uri) === request.
StillInstalled(tree, u, c) == tstGet(tree, u) = Req(c)

\* A rejection handler that leaves the request in its slot.
OnErrorKeep(tree, u) == tree
\* this.data.delete(uri)
OnError(tree, u) == tstDelete(tree, u)

\* The promise of call c rejects with err: the .catch(err => ...) handler.
fetchRejected(c, err) ==
    /\ calls[c].st = "pending"
    /\ LET w == calls[c].w
           u == calls[c].uri
       IN  /\ data' = IF ~IsCanceled(err) /\ StillInstalled(data[w], u, c)
                      THEN [data EXCEPT ![w] = OnError(@, u)] ELSE data
           /\ last' = [NoOp EXCEPT !.op = "rejected", !.w = w, !.uri = u,
                                   !.c = c, !.gen = calls[c].gen,
                                   !.cancelled = calls[c].cancelled,
                                   !.sup = calls[c].sup, !.val = err]
    /\ calls' = [calls EXCEPT ![c] = DoneCall]
    /\ pubOut' = << >>
    /\ uriOut' = << >>
    /\ callsOut' = << >>
    /\ ret' = << >>
    /\ UNCHANGED <<_data, subscribed, handleInvoked, nWrappers>>

UriLists == UNION { [1..n -> Res] : n \in 1..MaxUris }
\* One answer per wrapper of _data; the answer of a provider that is not
\* called is immaterial and fixed.
RespsFor(u) ==
    { r \in [1..Len(_data) -> Resp] :
        \A i \in 1..Len(_data) :
            ~IsUnknown(tstGet(data[_data[i]], u)) => r[i] = "async" }
Results == {Undefined, Deco(TRUE), Deco(FALSE)}

\* ------------------------------------------------- DecorationRequestsQueue
\* A JavaScript Map, as its <<key, value>> entries in insertion order.
MapHas(m, k) == \E i \in 1..Len(m) : m[i][1] = k
MapSet(m, k, v) ==
    IF MapHas(m, k)
    THEN [i \in 1..Len(m) |-> IF m[i][1] = k THEN <<k, v>> ELSE m[i]]
    ELSE Append(m, <<k, v>>)
MapDelete(m, k) == SelectSeq(m, LAMBDA e : e[1] # k)
MapValues(m) == [i \in 1..Len(m) |-> m[i][2]]
MapKeys(m) == { m[i][1] : i \in 1..Len(m) }

\* What setTimeout returns in the browser: typeof is 'number'.
TimerHandle == [t |-> "number"]

\* DecorationData as the extension side answers: [bubble, tooltip, letter,
\* themeColor], of which bubble is kept; bubble may be missing.
Data(b) == [t |-> "data", bubble |-> b]
DataVals == {Undefined, Data("true"), Data("undefined")}

\* The promise enqueue returned.  call: the provideDecorations call that
\* awaits it (0: none).  st: waiting, resolved.  cancelled (history): no, or
\* where the request was when its token fired: queued (in the live maps),
\* flying (its batch sent and not completed).  carried (history): the
\* batched calls whose argument held its id.  lost (history): its batch failed.
NewPromise(id, uri, call) ==
    [id |-> id, uri |-> uri, call |-> call, st |-> "waiting", val |-> NoVal,
     cancelled |-> "no", carried |-> 0, lost |-> FALSE]

\* A batched $provideDecorations call: its argument and the Map the
\* completion handler closed over.
FreeBatch == [st |-> "free", requests |-> << >>, resolver |-> << >>]
DoneBatch == [FreeBatch EXCEPT !.st = "done"]
Batches == 1..MaxRequests
NextBatch(bs) == CHOOSE b \in Batches :
                     /\ bs[b].st = "free"
                     /\ \A d \in Batches : d < b => bs[d].st # "free"

\* The queue's fields, threaded through the calls a handler makes.
QHeap == [idPool |-> _idPool, requests |-> _requests, resolver |-> _resolver,
          timer |-> _timer, timeouts |-> timeouts, promises |-> promises]

\* A _processQueue that schedules a flush whatever _timer holds.
NeverQueued(timer) == FALSE
\* "already queued": typeof this._timer === 'number'.
AlreadyQueued(timer) == timer = TimerHandle

_processQueue(Q) ==
    IF AlreadyQueued(Q.timer) THEN Q
    ELSE [Q EXCEPT !.timer = TimerHandle, !.timeouts = @ + 1]

enqueueQ(Q, uri, call) ==
    LET id == Q.idPool + 1
        p == Len(Q.promises) + 1
    IN  _processQueue(
            [Q EXCEPT !.idPool = id,
                      !.promises = Append(@, NewPromise(id, uri, call)),
                      !.requests = MapSet(@, id, [id |-> id, uri |-> uri]),
                      !.resolver = MapSet(@, id, p)])

\* The listener enqueue put on the token of promise p.
onCancellationRequested(Q, p, bs) ==
    LET id == Q.promises[p].id
        where == IF \E i \in 1..Len(Q.resolver) : Q.resolver[i] = <<id, p>>
                 THEN "queued"
                 ELSE IF \E b \in Batches :
                            /\ bs[b].st = "flying"
                            /\ \E i \in 1..Len(bs[b].resolver) :
                                   bs[b].resolver[i][2] = p
                      THEN "flying" ELSE "no"
    IN  [Q EXCEPT !.requests = MapDelete(@, id),
                  !.resolver = MapDelete(@, id),
                  !.promises[p].cancelled = where]

QNoOp == [op |-> "init", p |-> 0, b |-> 0, data |-> << >>, batch |-> FreeBatch]

QInit ==
    /\ _idPool = 0
    /\ _requests = << >>
    /\ _resolver = << >>
    /\ _timer = Undefined
    /\ timeouts = 0
    /\ promises = << >>
    /\ batches = [b \in Batches |-> FreeBatch]
    /\ qlast = QNoOp

QAssign(Q) ==
    /\ _idPool' = Q.idPool
    /\ _requests' = Q.requests
    /\ _resolver' = Q.resolver
    /\ _timer' = Q.timer
    /\ timeouts' = Q.timeouts
    /\ promises' = Q.promises

\* enqueue(uri, token), called with a token that has not fired.
enqueue(uri) ==
    /\ Len(promises) < MaxRequests
    /\ QAssign(enqueueQ(QHeap, uri, 0))
    /\ qlast' = [QNoOp EXCEPT !.op = "enqueue", !.p = Len(promises) + 1]
    /\ UNCHANGED <<batches, vars>>

\* The request of promise p is in the live maps, or in a batch in flight.
Outstanding(p) ==
    \/ \E i \in 1..Len(_resolver) : _resolver[i][2] = p
    \/ \E b \in Batches :
           /\ batches[b].st = "flying"
           /\ \E i \in 1..Len(batches[b].resolver) : batches[b].resolver[i][2] = p

\* The token handed to enqueue with promise p fires, once.  Once the batch of p has
\* completed the listener finds nothing to delete: that firing is left out.
tokenCancelled(p) ==
    /\ p \in 1..Len(promises)
    /\ promises[p].cancelled = "no"
    /\ Outstanding(p)
    /\ QAssign(onCancellationRequested(QHeap, p, batches))
    /\ qlast' = [QNoOp EXCEPT !.op = "cancel", !.p = p]
    /\ UNCHANGED <<batches, vars>>

\* A flush that goes on with the maps it has just sent.
SameMap(old) == old
\* "reset": this._requests = new Map(); this._resolver = new Map().
NewMap(old) == << >>

\* The setTimeout callback of _processQueue.
timerFired ==
    /\ timeouts > 0
    /\ LET requests == _requests
           resolver == _resolver
           args == MapValues(requests)
           b == NextBatch(batches)
       IN  /\ batches' = [batches EXCEPT ![b] =
                             [st |-> "flying", requests |-> args,
                              resolver |-> resolver]]
           /\ promises' = [p \in 1..Len(promises) |->
                             IF \E i \in 1..Len(args) : args[i].id = promises[p].id
                             THEN [promises[p] EXCEPT !.carried = @ + 1]
                             ELSE promises[p]]
                  /\ qlast' = [QNoOp EXCEPT !.op = "flush", !.b = b]
    /\ _requests' = NewMap(_requests)
    /\ _resolver' = NewMap(_resolver)
    /\ _timer' = Undefined
    /\ timeouts' = timeouts - 1
    /\ UNCHANGED <<_idPool, vars>>

\* The batched answer: id -> DecorationData, undefined for an id it lacks.
DataGet(answer, id) ==
    IF id \in DOMAIN answer THEN answer[id] ELSE Undefined
\* A completion handler that hands every waiter the batch's first entry.
FirstEntry(answer, id) ==
    DataGet(answer, CHOOSE k \in DOMAIN answer : \A j \in DOMAIN answer : k <= j)
\* resolve(data[id])
Entry(answer, id) == DataGet(answer, id)

\* The batched call b fulfils with answer: the .then(data => ...) handler.
batchResolved(b, answer) ==
    /\ batches[b].st = "flying"
    /\ LET resolver == batches[b].resolver
       IN  promises' = [p \in 1..Len(promises) |->
               IF /\ promises[p].st = "waiting"
                  /\ \E i \in 1..Len(resolver) : resolver[i][2] = p
               THEN LET i == CHOOSE i \in 1..Len(resolver) : resolver[i][2] = p
                    IN  [promises[p] EXCEPT !.st = "resolved",
                                            !.val = Entry(answer, resolver[i][1])]
               ELSE promises[p]]
    /\ batches' = [batches EXCEPT ![b] = DoneBatch]
    /\ qlast' = [QNoOp EXCEPT !.op = "batchResolved", !.b = b, !.data = answer,
                              !.batch = batches[b]]
    /\ UNCHANGED <<_idPool, _requests, _resolver, _timer, timeouts, vars>>

\* A rejection handler that resolves the waiter with nothing.
ResolvedEmpty(promise) ==
    [promise EXCEPT !.lost = TRUE, !.st = "resolved", !.val = Undefined]
\* The waiter of a batch that failed: nothing is done to it.
Unanswered(promise) == [promise EXCEPT !.lost = TRUE]

\* The batched call b rejects: .then has no rejection handler.
batchRejected(b) ==
    /\ batches[b].st = "flying"
    /\ LET resolver == batches[b].resolver
       IN  promises' = [p \in 1..Len(promises) |->
               IF \E i \in 1..Len(resolver) : resolver[i][2] = p
               THEN Unanswered(promises[p])
               ELSE promises[p]]
    /\ batches' = [batches EXCEPT ![b] = DoneBatch]
    /\ qlast' = [QNoOp EXCEPT !.op = "batchRejected", !.b = b]
    /\ UNCHANGED <<_idPool, _requests, _resolver, _timer, timeouts, vars>>

\* The answers the extension side may give to the argument of batch b.
Answers(b) ==
    [ { batches[b].requests[i].id : i \in 1..Len(batches[b].requests) }
        -> DataVals ]

QNext ==
    \/ \E uri \in Res : enqueue(uri)
    \/ \E p \in 1..MaxRequests : tokenCancelled(p)
    \/ timerFired
    \/ \E b \in Batches : \E answer \in Answers(b) : batchResolved(b, answer)
    \/ \E b \in Batches : batchRejected(b)


\* ---------------------------------------------------------- specifications
Init == ServiceInit /\ QInit

\* The service with in-process providers: the queue is not involved.
Next ==
    \/ registerDecorationsProvider /\ UNCHANGED qvars
    \/ \E w \in Wrappers : disposeHandle(w) /\ UNCHANGED qvars
    \/ \E u \in Res, ic \in BOOLEAN :
           \E resps \in RespsFor(u) :
               getDecoration(u, ic, resps) /\ UNCHANGED qvars
    \/ \E w \in Wrappers : onDidChangeFlush(w) /\ UNCHANGED qvars
    \/ \E w \in Wrappers, uris \in UriLists :
           \E resps \in [1..Len(uris) -> Resp] :
               onDidChangeUris(w, uris, resps) /\ UNCHANGED qvars
    \/ \E c \in CallIds, val \in Results :
           fetchResolved(c, val) /\ UNCHANGED qvars
    \/ \E c \in CallIds, err \in Errors :
           fetchRejected(c, err) /\ UNCHANGED qvars

Spec == Init /\ [][Next]_allvars

\* The request queue on its own: the service is idle.
QSpec == Init /\ [][QNext]_allvars

\* ------------------------------------------------------ DecorationsMainImpl
\* provideDecorations of the provider $registerDecorationProvider registers:
\* what it makes of the DecorationData enqueue resolved with.
Convert(d) ==
    IF d = Undefined THEN Undefined
    ELSE Deco(IF d.bubble = "undefined" THEN FALSE ELSE d.bubble = "true")

\* The handle and the wrapper of the one remote provider.
Remote == 1
AllAsync(n) == [i \in 1..n |-> "async"]

\* queue.enqueue(uri, token) for the calls out[i..] a service handler made;
\* the k-th of them is call made + k.
RECURSIVE EnqueueAll(_, _, _, _)
EnqueueAll(Q, out, made, i) ==
    IF i > Len(out) THEN Q
    ELSE EnqueueAll(enqueueQ(Q, out[i].uri, made + i), out, made, i + 1)

\* The token listeners of the promises in ps run.
RECURSIVE CancelAll(_, _)
CancelAll(Q, ps) ==
    IF ps = {} THEN Q
    ELSE LET p == CHOOSE x \in ps : \A y \in ps : x <= y
         IN  CancelAll(onCancellationRequested(Q, p, batches), ps \ {p})

ServiceOp == [QNoOp EXCEPT !.op = "service"]

\* A service handler that makes no provider call and cancels no token.
QueueIdle ==
    /\ qlast' = ServiceOp
    /\ UNCHANGED <<_idPool, _requests, _resolver, _timer, timeouts, promises,
                   batches>>

\* What the service handler of this step did to the queue: each call it made
\* enqueued a request, each token it cancelled ran its listener.
QueueFollows ==
    /\ Len(promises) + Len(callsOut') <= MaxRequests
    /\ \E Q1 \in {EnqueueAll(QHeap, callsOut', Made(calls), 1)} :
           LET fired == { p \in 1..Len(Q1.promises) :
                            /\ calls'[Q1.promises[p].call].cancelled
                            /\ ~calls[Q1.promises[p].call].cancelled }
           IN  \E Q2 \in {CancelAll(Q1, fired)} : QAssign(Q2)
    /\ qlast' = ServiceOp
    /\ UNCHANGED batches

\* $registerDecorationProvider(handle, label)
remoteRegister ==
    /\ nWrappers = 0
    /\ registerDecorationsProvider
    /\ QueueIdle

\* $unregisterDecorationProvider(handle), while the handle is in providers.
remoteUnregister ==
    /\ ~handleInvoked[Remote]
    /\ disposeHandle(Remote)
    /\ QueueIdle

\* getDecoration when the one provider is the remote one.
remoteGetDecoration(u, includeChildren) ==
    /\ getDecoration(u, includeChildren, AllAsync(Len(_data)))
    /\ QueueFollows

\* $onDidChange(handle, resources) with no resources.
remoteOnDidChangeFlush ==
    /\ onDidChangeFlush(Remote)
    /\ QueueIdle

\* $onDidChange(handle, resources) with resources.
remoteOnDidChangeUris(uris) ==
    /\ onDidChangeUris(Remote, uris, AllAsync(Len(uris)))
    /\ QueueFollows

\* "const data = await queue.enqueue(uri, token)" goes on: the promise of the
\* provideDecorations call fulfils with the converted data.
remoteFetchResolved(p) ==
    /\ p \in 1..Len(promises)
    /\ promises[p].st = "resolved"
    /\ promises[p].call \in CallIds
    /\ fetchResolved(promises[p].call, Convert(promises[p].val))
    /\ QueueIdle

RemoteNext ==
    \/ remoteRegister
    \/ remoteUnregister
    \/ \E u \in Res, ic \in BOOLEAN : remoteGetDecoration(u, ic)
    \/ remoteOnDidChangeFlush
    \/ \E uris \in UriLists : remoteOnDidChangeUris(uris)
    \/ \E p \in 1..MaxRequests : remoteFetchResolved(p)
    \/ timerFired
    \/ \E b \in Batches : \E answer \in Answers(b) : batchResolved(b, answer)
    \/ \E b \in Batches : batchRejected(b)

\* The service with one provider behind the request queue.
RemoteSpec == Init /\ [][RemoteNext]_allvars

\* ------------------------------------------------------------------ claims
Range(seq) == { seq[i] : i \in 1..Len(seq) }
\* What the cache holds once a result val was kept.
StoredForm(val) == IF Truthy(val) THEN val ELSE Undef
\* The last handler called provideDecorations of wrapper w for u.
Called(out, w, u) == \E k \in 1..Len(out) : out[k].w = w /\ out[k].uri = u
\* The resources with a cache slot in tree, and their strict ancestors.
SlotOrAncestor(tree) ==
    { u \in Res : \/ tree[u] # Absent
                  \/ \E d \in Res : IsStrictDescendant(d, u) /\ tree[d] # Absent }

\* C1: every per-resource notification a wrapper fires when it keeps a fetch
\* result is delivered on onDidChangeDecorations, as an event whose
\* affectsResource is true for that resource.
C1_NotificationsDelivered ==
    \A i \in 1..Len(uriOut) :
        \E j \in 1..Len(pubOut) : affectsResource(pubOut[j], uriOut[i][2])

\* C2: a fetch A superseded by a later fetch B for the same wrapper and
\* resource has its token cancelled and is not the installed slot; when A
\* settles the cache is left as it is and nothing is fired; when B's result
\* arrives (at once, or when its promise fulfils) it is what the cache holds.
C2_SupersededNeverStored ==
    [][ /\ \A c \in CallIds :
              (calls'[c].st = "pending" /\ calls'[c].gen = "superseded") =>
                  /\ calls'[c].cancelled
                  /\ data'[calls'[c].w][calls'[c].uri] # Req(c)
        /\ (last'.op \in {"resolved", "rejected"} /\ last'.gen = "superseded") =>
              (data' = data /\ uriOut' = << >>)
        /\ (last'.op = "resolved" /\ last'.gen = "latest" /\ last'.sup) =>
              data'[last'.w][last'.uri] = StoredForm(last'.val)
        /\ \A k \in 1..Len(callsOut') :
              LET u == callsOut'[k].uri
              IN  ( /\ last'.op = "change"
                    /\ HasPending(Heap, last'.w, u)
                    /\ \A j \in 1..Len(callsOut') : j > k => callsOut'[j].uri # u )
                  => IF callsOut'[k].resp = "async"
                     THEN /\ data'[last'.w][u].t = "req"
                          /\ calls[data'[last'.w][u].id].st = "free"
                          /\ calls'[data'[last'.w][u].id].st = "pending"
                     ELSE data'[last'.w][u] = StoredForm(SyncVal(callsOut'[k].resp))
      ]_vars

\* A superseded fetch resolves with a decoration after its successor's other
\* decoration was cached, and the successor's is still there.
C2_Witness ==
    /\ last.op = "resolved"
    /\ last.gen = "superseded"
    /\ last.val.t = "deco"
    /\ data[last.w][last.uri].t = "deco"
    /\ data[last.w][last.uri] # last.val

\* C3: a second invocation of a registration's disposal handle removes no
\* wrapper from _data and fires no event.
C3_SecondDisposeNoEffect ==
    (last.op = "dispose" /\ last.second) =>
        (last.removed = 0 /\ pubOut = << >>)

\* C4: the disposal handle fires exactly one event, and its affectsResource,
\* evaluated during delivery, is true exactly for the resources the wrapper
\* has a cache slot for (pending, decoration or empty) and their strict
\* ancestors.
C4_DisposeEventScope ==
    [][ last'.op = "dispose" =>
            pubOut' = << AffectsOnly(SlotOrAncestor(data[last'.w])) >> ]_vars

\* C5: once a wrapper holds a resolved slot for R (a decoration or the empty
\* result), getDecoration(R) answers from the cache and does not call the
\* provider for R.
C5_ResolvedNotRefetched ==
    [][ last'.op = "get" =>
            \A i \in 1..Len(_data) :
                LET slot == data[_data[i]][last'.uri]
                IN  /\ slot.t \in {"undef", "deco"} =>
                           ~Called(callsOut', _data[i], last'.uri)
                    /\ slot.t = "deco" =>
                           [w |-> _data[i], uri |-> last'.uri, deco |-> slot]
                               \in Range(ret') ]_vars

\* getDecoration(u, false) on a resource with no slot in any listed wrapper.
C6_Case ==
    /\ last'.op = "get"
    /\ ~last'.ic
    /\ \A i \in 1..Len(_data) : data[_data[i]][last'.uri] = Absent
\* It calls each listed provider once, in order, for that resource.
C6_OneCallEach ==
    /\ Len(callsOut') = Len(_data)
    /\ \A i \in 1..Len(_data) :
           callsOut'[i].w = _data[i] /\ callsOut'[i].uri = last'.uri

\* C6 as stated: for a resource never queried, getDecoration(R, false) returns
\* an empty list and calls each registered provider exactly once, whether the
\* provider answers synchronously or asynchronously.
C6_UnknownReturnsEmpty ==
    [][ C6_Case => (ret' = << >> /\ C6_OneCallEach) ]_vars

\* C6 amended: getDecoration(R, false) calls each registered provider exactly
\* once; it returns, in registration order, exactly the decorations the
\* providers handed back synchronously, and the slot of an asynchronous
\* provider is the pending request, whose value no call returns before it
\* settles.
C6_UnknownReturnsSyncOnly ==
    [][ C6_Case =>
          /\ C6_OneCallEach
          /\ LET sync == SelectSeq(callsOut',
                             LAMBDA k : k.resp \in {"syncBubble", "syncPlain"})
             IN  ret' = [j \in 1..Len(sync) |->
                            [w |-> sync[j].w, uri |-> sync[j].uri,
                             deco |-> Deco(sync[j].resp = "syncBubble")]]
          /\ \A i \in 1..Len(_data) :
                 callsOut'[i].resp = "async" =>
                     data'[_data[i]][last'.uri].t = "req" ]_vars

\* Two providers, neither asked before: one answers at once with a decoration,
\* which the same call returns.
C6_Witness ==
    /\ last.op = "get"
    /\ ~last.ic
    /\ Len(_data) = MaxWrappers
    /\ Len(callsOut) = Len(_data)
    /\ Made(calls) = Len(callsOut)
    /\ Len(ret) = 1

\* C7: in the result of getDecoration(R, includeChildren), a decoration
\* resolved for a strict descendant of R in a listed wrapper appears iff
\* includeChildren is set and the decoration bubbles; a decoration resolved
\* for R itself always appears; nothing else appears.
C7_BubbleRule ==
    last.op = "get" =>
        /\ \A i \in 1..Len(_data), u \in Res :
               LET w == _data[i]
                   entry == [w |-> w, uri |-> u, deco |-> data[w][u]]
               IN  data[w][u].t = "deco" =>
                       /\ u = last.uri => entry \in Range(ret)
                       /\ IsStrictDescendant(u, last.uri) =>
                              (entry \in Range(ret) <=>
                                   (last.ic /\ data[w][u].bubble))
        /\ \A e \in Range(ret) :
               /\ e.w \in Range(_data)
               /\ data[e.w][e.uri] = e.deco
               /\ e.uri = last.uri \/ IsStrictDescendant(e.uri, last.uri)

\* A query with includeChildren whose result holds a descendant's decoration
\* and the resource's own decoration, which does not bubble.
C7_Witness ==
    /\ last.op = "get"
    /\ last.ic
    /\ \E e \in Range(ret) : IsStrictDescendant(e.uri, last.uri)
    /\ \E e \in Range(ret) : e.uri = last.uri /\ ~e.deco.bubble

\* C8: a flush event empties the wrapper's cache and fires exactly one event
\* that affects every resource; a call that was pending at the flush (or at a
\* disposal) leaves the cache as it is when it settles; the getDecoration that
\* follows the flush, for a resource the flush found resolved in a listed
\* wrapper, calls the provider again and returns for that wrapper nothing but
\* what this new call hands back.
C8_FlushRefetches ==
    [][ /\ last'.op = "flush" =>
              /\ data'[last'.w] = EmptyTree
              /\ pubOut' = << AffectsAll >>
              /\ uriOut' = << >>
              /\ callsOut' = << >>
        /\ (last'.op \in {"resolved", "rejected"} /\ last'.gen = "dropped") =>
              (data' = data /\ uriOut' = << >>)
        /\ (last'.op = "get" /\ last'.afterFlush) =>
              /\ Called(callsOut', last.w, last'.uri)
              /\ \A e \in Range(ret') :
                     e.w = last.w =>
                         /\ e.uri = last'.uri
                         /\ \E k \in 1..Len(callsOut') :
                                /\ callsOut'[k].w = e.w
                                /\ callsOut'[k].uri = e.uri
                                /\ e.deco = SyncVal(callsOut'[k].resp)
      ]_vars

\* The query right after a flush, for a resource that was resolved, with the
\* provider called again.
C8_Witness ==
    /\ last.op = "get"
    /\ last.afterFlush
    /\ Called(callsOut, last.w, last.uri)

\* C9: provideDecorations is never invoked for a resource while an earlier
\* call for it on the same provider is outstanding with its token not
\* cancelled: after a handler that called (w, u), the only pending call for
\* (w, u) whose token is not cancelled is the one it made last, if that one
\* is asynchronous.
C9_NoConcurrentCalls ==
    \A k \in 1..Len(callsOut) :
        LET w == callsOut[k].w
            u == callsOut[k].uri
            lastK == CHOOSE j \in 1..Len(callsOut) :
                        /\ callsOut[j].w = w /\ callsOut[j].uri = u
                        /\ \A i \in 1..Len(callsOut) :
                               (callsOut[i].w = w /\ callsOut[i].uri = u) => i <= j
            open == { c \in CallIds : /\ calls[c].st = "pending"
                                      /\ calls[c].w = w /\ calls[c].uri = u
                                      /\ ~calls[c].cancelled }
        IN  Cardinality(open) <= (IF callsOut[lastK].resp = "async" THEN 1 ELSE 0)

\* C10: registration appends the new wrapper to _data, fires exactly one
\* event, which affects every resource, and calls no provider: no call of the
\* new wrapper exists when the event is fired.
C10_RegisterEvent ==
    [][ last'.op = "register" =>
          /\ _data' = Append(_data, last'.w)
          /\ last'.w \notin Range(_data)
          /\ pubOut' = << AffectsAll >>
          /\ \A u \in Res : affectsResource(pubOut'[1], u)
          /\ callsOut' = << >>
          /\ calls' = calls
          /\ data'[last'.w] = EmptyTree
          /\ \A c \in CallIds : calls'[c].w # last'.w ]_vars

\* A second provider is registered while the first is listed.
C10_Witness ==
    /\ last.op = "register"
    /\ Len(_data) = MaxWrappers
    /\ pubOut = << AffectsAll >>

\* C15: when the promise of a fetch for R rejects with an error other than
\* cancellation while its request is the slot installed for R, the slot is
\* removed and nothing else in any cache changes: no error is cached, nothing
\* is fired on either emitter and nothing is handed to a caller; the
\* getDecoration(R) that follows calls the provider again, if the wrapper is
\* listed in _data.
C15_ErrorRevertsToUnknown ==
    [][ /\ ( /\ last'.op = "rejected"
             /\ last'.val = Failure
             /\ data[last'.w][last'.uri] = Req(last'.c) ) =>
              /\ data' = [data EXCEPT ![last'.w][last'.uri] = Absent]
              /\ pubOut' = << >>
              /\ uriOut' = << >>
              /\ ret' = << >>
              /\ callsOut' = << >>
        /\ ( /\ last.op = "rejected"
             /\ last.val = Failure
             /\ last.gen = "latest"
             /\ last'.op = "get"
             /\ last'.uri = last.uri
             /\ last.w \in Range(_data) ) =>
              /\ data[last.w][last.uri] = Absent
              /\ Called(callsOut', last.w, last.uri)
      ]_vars

\* The request installed for a resource has just failed: the slot is gone.
C15_Witness ==
    /\ last.op = "rejected"
    /\ last.val = Failure
    /\ last.gen = "latest"
    /\ ~last.cancelled
    /\ data[last.w][last.uri] = Absent
    /\ last.w \in Range(_data)

\* C16: a wrapper that stores a fetch result for R fires R on its emitter iff
\* the new value, or what R had resolved to before the fetch, is a decoration:
\* an empty result stored for a resource without one fires nothing, whether
\* the provider answered at once or its promise fulfilled while the request
\* was the installed slot.
C16_NotifyIffObservable ==
    [][ /\ ( /\ last'.op = "resolved"
             /\ data[last'.w][last'.uri] = Req(last'.c) ) =>
              ( <<last'.w, last'.uri>> \in Range(uriOut') <=>
                    (last'.val.t = "deco" \/ calls[last'.c].prev) )
        /\ last'.op \in {"get", "change"} =>
              \A k \in 1..Len(callsOut') :
                  LET w == callsOut'[k].w
                      u == callsOut'[k].uri
                  IN  ( /\ callsOut'[k].resp # "async"
                        /\ \A j \in 1..Len(callsOut') :
                               (callsOut'[j].w = w /\ callsOut'[j].uri = u) => j = k )
                      => ( <<w, u>> \in Range(uriOut') <=>
                               ( \/ SyncVal(callsOut'[k].resp).t = "deco"
                                 \/ PrevDeco(Heap, w, u) ) )
      ]_vars

\* C17: a request installed in a cache whose promise has not settled belongs
\* to that wrapper and resource and its token is not cancelled, and a request
\* whose token the wrapper cancelled is installed nowhere; a handler that
\* calls the provider for a resource whose slot held an unsettled request
\* leaves that request's token cancelled and another slot in its place, the
\* new request if the provider answered with a promise.
C17_OnePendingSlot ==
    [][ /\ \A w \in Wrappers, u \in Res :
              (data'[w][u].t = "req" /\ calls'[data'[w][u].id].st = "pending") =>
                  /\ ~calls'[data'[w][u].id].cancelled
                  /\ calls'[data'[w][u].id].w = w
                  /\ calls'[data'[w][u].id].uri = u
        /\ \A c \in CallIds, w \in Wrappers, u \in Res :
              (calls'[c].st = "pending" /\ calls'[c].cancelled) =>
                  data'[w][u] # Req(c)
        /\ \A k \in 1..Len(callsOut') :
              LET w == callsOut'[k].w
                  u == callsOut'[k].uri
                  first == \A j \in 1..Len(callsOut') :
                               (callsOut'[j].w = w /\ callsOut'[j].uri = u) => j >= k
                  only == \A j \in 1..Len(callsOut') :
                              (callsOut'[j].w = w /\ callsOut'[j].uri = u) => j = k
              IN  /\ (first /\ HasPending(Heap, w, u)) =>
                         /\ calls'[data[w][u].id].st = "pending"
                         /\ calls'[data[w][u].id].cancelled
                         /\ data'[w][u] # data[w][u]
                  /\ (only /\ callsOut'[k].resp = "async") =>
                         /\ data'[w][u].t = "req"
                         /\ calls[data'[w][u].id].st = "free"
                         /\ calls'[data'[w][u].id].st = "pending"
      ]_vars

\* A change event for a resource whose slot was pending: the old request is
\* cancelled and the new request is installed.
C17_Witness ==
    /\ last.op = "change"
    /\ Len(callsOut) = 1
    /\ callsOut[1].resp = "async"
    /\ HasPending(Heap, last.w, last.uri)
    /\ \E c \in CallIds : calls[c].st = "pending" /\ calls[c].cancelled

\* C18: when a fetch that a later fetch for the same wrapper and resource
\* superseded settles, by an error, a cancellation or a result, its request is
\* not the installed slot, no cache changes (the successor's request or value
\* stays where it is) and nothing is fired on either emitter.
C18_SupersededCompletionFrame ==
    [][ (last'.op \in {"resolved", "rejected"} /\ last'.gen = "superseded") =>
            /\ data[last'.w][last'.uri] # Req(last'.c)
            /\ data' = data
            /\ _data' = _data
            /\ uriOut' = << >>
            /\ pubOut' = << >>
            /\ callsOut' = << >>
            /\ \A c \in CallIds : c # last'.c => calls'[c] = calls[c]
      ]_vars

\* A superseded fetch fails with an error after its successor's decoration
\* was stored: the decoration is still there.
C18_Witness ==
    /\ last.op = "rejected"
    /\ last.val = Failure
    /\ last.gen = "superseded"
    /\ data[last.w][last.uri].t = "deco"

\* C19: a wrapper whose disposal handle has been invoked is not listed in
\* _data and not subscribed to its provider; no later handler calls its
\* provider, returns a decoration of it, writes to its cache or fires for it:
\* no change event of its provider is handled, and a fetch of it that was
\* pending at the disposal leaves every cache as it is when it settles.
C19_DisposedHasNoEffect ==
    [][ \A w \in Wrappers :
            handleInvoked[w] =>
                /\ w \notin Range(_data')
                /\ ~subscribed'[w]
                /\ data'[w] = EmptyTree
                /\ \A k \in 1..Len(callsOut') : callsOut'[k].w # w
                /\ \A k \in 1..Len(ret') : ret'[k].w # w
                /\ \A k \in 1..Len(uriOut') : uriOut'[k][1] # w
                /\ last'.op \in {"flush", "change"} => last'.w # w
                /\ (last'.op \in {"resolved", "rejected"} /\ last'.w = w) =>
                       (data' = data /\ pubOut' = << >>)
      ]_vars

\* A fetch that was pending when its wrapper was disposed fulfils with a
\* decoration afterwards.
C19_Witness ==
    /\ last.op = "resolved"
    /\ handleInvoked[last.w]
    /\ last.gen = "dropped"
    /\ last.val.t = "deco"
    /\ Len(_data) > 0

\* --------------------------------------------------- claims on the queue
\* What the batched call receives for promise p.
RequestOf(p) == [id |-> promises[p].id, uri |-> promises[p].uri]
\* The promises enqueued since the previous flush whose token has not fired.
Live == { p \in 1..Len(promises) :
            promises[p].carried = 0 /\ promises[p].cancelled = "no" }

\* C11: a flush makes exactly one batched call, whose argument holds exactly
\* the requests enqueued since the previous flush and not cancelled before it
\* runs; no other handler makes a batched call; no request is carried by two
\* batched calls; a request whose token fired before the flush ran is carried
\* by none and its promise stays unresolved.
C11_OneBatchPerTurn ==
    [][ /\ \A p \in 1..Len(promises') :
              /\ promises'[p].carried <= 1
              /\ promises'[p].cancelled = "queued" =>
                     (promises'[p].carried = 0 /\ promises'[p].st = "waiting")
        /\ qlast'.op = "flush" =>
              LET args == batches'[qlast'.b].requests
              IN  /\ batches[qlast'.b].st = "free"
                  /\ batches'[qlast'.b].st = "flying"
                  /\ \A b \in Batches \ {qlast'.b} : batches'[b] = batches[b]
                  /\ Len(args) = Cardinality(Live)
                  /\ Range(args) = { RequestOf(p) : p \in Live }
        /\ qlast'.op # "flush" =>
              \A b \in Batches :
                  batches'[b].st = "flying" => batches'[b] = batches[b]
      ]_allvars

\* Three requests enqueued in one turn, one of them cancelled before the
\* flush: the batched call carries the other two.
C11_Witness ==
    /\ qlast.op = "flush"
    /\ qlast.b = 1
    /\ Len(promises) = MaxRequests
    /\ Len(batches[1].requests) = MaxRequests - 1
    /\ \E p \in 1..Len(promises) : promises[p].cancelled = "queued"

\* C12: a request whose token fires after the flush sent its batch and before
\* the batched call completes is skipped on completion: its promise is never
\* resolved.
C12_CancelledInFlightSkipped ==
    \A p \in 1..Len(promises) :
        promises[p].cancelled = "flying" => promises[p].st = "waiting"

\* The promises whose resolver the completion handler of a batch holds.
WaitersOf(batch) == { batch.resolver[i][2] : i \in 1..Len(batch.resolver) }

\* C13: no two requests of a queue ever get the same id; when a batched call
\* fulfils, each promise of its batch is resolved with the entry of the answer
\* stored under the id of its own request; promises of other batches, in
\* flight or not yet sent, are left as they are.
C13_ResolvedWithOwnEntry ==
    [][ /\ \A p, q \in 1..Len(promises') :
              p # q => promises'[p].id # promises'[q].id
        /\ qlast'.op = "batchResolved" =>
              \A p \in 1..Len(promises) :
                  IF p \in WaitersOf(qlast'.batch)
                  THEN /\ promises[p].st = "waiting"
                       /\ promises'[p].st = "resolved"
                       /\ promises'[p].val = DataGet(qlast'.data, promises[p].id)
                  ELSE promises'[p] = promises[p]
      ]_allvars

\* A batch of two fulfils with different entries for the two while a later
\* batch is in flight.
C13_Witness ==
    /\ qlast.op = "batchResolved"
    /\ \E p, q \in WaitersOf(qlast.batch) :
           /\ promises[p].val = Data("true")
           /\ promises[q].val = Undefined
    /\ \E b \in Batches : batches[b].st = "flying" /\ Len(batches[b].requests) = 1

\* Some batched call has been sent and has not completed.
InFlight == \E b \in Batches : batches[b].st = "flying"

\* C14: at most one flush is scheduled, and one is scheduled exactly while
\* _timer holds a handle; an enqueue made while a batched call is outstanding
\* puts its request in the live maps, in no batch in flight, schedules a flush
\* and leaves the batches in flight as they are; a scheduled flush can run
\* while a batched call is outstanding, and leaves that call as it is.
C14_OneFlushScheduled ==
    [][ /\ timeouts' <= 1
        /\ (timeouts' = 1) <=> (_timer' = TimerHandle)
        /\ (timeouts > 0 /\ InFlight) => ENABLED timerFired
        /\ (qlast'.op = "enqueue" /\ InFlight) =>
              LET p == qlast'.p
              IN  /\ <<promises'[p].id, p>> \in Range(_resolver')
                  /\ [id |-> promises'[p].id, uri |-> promises'[p].uri]
                         \in Range(MapValues(_requests'))
                  /\ \A b \in Batches : p \notin WaitersOf(batches'[b])
                  /\ timeouts' = 1
                  /\ batches' = batches
        /\ qlast'.op = "flush" =>
              \A b \in Batches :
                  batches[b].st = "flying" => batches'[b] = batches[b]
      ]_allvars

\* A second batch is sent while the first is still outstanding.
C14_Witness ==
    /\ qlast.op = "flush"
    /\ qlast.b = 2
    /\ batches[1].st = "flying"
    /\ Len(batches[1].requests) > 0
    /\ Len(batches[2].requests) > 0

\* --------------------------------- claims on the provider behind the queue
\* The promises whose batched call failed.
Lost == { p \in 1..Len(promises) : promises[p].lost }

\* C20: when a batched call fails, its handler settles no promise and touches
\* neither the queue's live maps and timer nor the service; a promise of the
\* failed batch is never settled afterwards and the provideDecorations call
\* awaiting it stays pending; the slot holding that call is not replaced by an
\* outcome of the call: it changes only when a change event for its resource
\* supersedes it (cancelling its token), a flush event clears the cache, or
\* the provider is unregistered; a scheduled flush can still run and a batch
\* in flight can still fulfil after a batch has failed.
C20_FailedBatchLeavesPending ==
    [][ /\ qlast'.op = "batchRejected" =>
              /\ \A p \in 1..Len(promises) :
                     /\ promises'[p].st = promises[p].st
                     /\ promises'[p].val = promises[p].val
              /\ \A p \in WaitersOf(batches[qlast'.b]) : p \in Lost'
              /\ batches'[qlast'.b].st = "done"
              /\ UNCHANGED <<vars, _idPool, _requests, _resolver, _timer,
                             timeouts>>
        /\ \A p \in Lost :
              LET c == promises[p].call
                  u == promises[p].uri
              IN  /\ promises[p].st = "waiting"
                  /\ promises'[p].st = "waiting"
                  /\ calls[c].st = "pending"
                  /\ calls'[c].st = "pending"
                  /\ (data[Remote][u] = Req(c) /\ data'[Remote][u] # Req(c)) =>
                         /\ qlast'.op = "service"
                         /\ last'.op \in {"change", "flush", "dispose"}
                         /\ last'.op = "change" =>
                                /\ \E k \in 1..Len(callsOut') :
                                       /\ callsOut'[k].w = Remote
                                       /\ callsOut'[k].uri = u
                                /\ calls'[c].cancelled
                                /\ data'[Remote][u].t = "req"
                         /\ last'.op \in {"flush", "dispose"} =>
                                data'[Remote][u] = Absent
                  /\ data[Remote][u] # Req(c) => data'[Remote][u] # Req(c)
        /\ (Lost # {} /\ timeouts > 0) => ENABLED timerFired
        /\ \A b \in Batches :
              (Lost # {} /\ batches[b].st = "flying") =>
                  ENABLED (\E answer \in Answers(b) : batchResolved(b, answer))
      ]_allvars

\* A batch failed and its request still holds the slot of its resource, while
\* the request of a later batch, for another resource, has been answered and
\* its decoration handed to the service.
C20_Witness ==
    /\ \E p \in Lost :
           /\ calls[promises[p].call].st = "pending"
           /\ data[Remote][promises[p].uri] = Req(promises[p].call)
    /\ \E q \in 1..Len(promises) :
           /\ q \notin Lost
           /\ \E p \in Lost : promises[p].carried = 1 /\ p < q
           /\ promises[q].st = "resolved"
           /\ promises[q].val = Data("true")
           /\ data[Remote][promises[q].uri] = Deco(TRUE)
    /\ qlast.op = "service"
    /\ last.op = "resolved"

====
